---- MODULE Spec2Model ----
(***************************************************************************)
(* A model of hockey_scraper's single-game scraper:                        *)
(*   src/espn_pbp.py      the auxiliary (ESPN) feed normalizer             *)
(*   src/game_scraper.py  identity resolution, the two merges, scrape_pbp, *)
(*                        scrape_shifts, scrape_game and the four          *)
(*                        module-level diagnostic lists                    *)
(* Strings the code inspects character by character (the descriptions     *)
(* event_type scans) are sequences of one-character strings; strings the   *)
(* code only compares or stores are TLA+ strings.  A pandas DataFrame is a *)
(* record holding the sequence of its rows; Python's None is the record    *)
(* None.                                                                   *)
(***************************************************************************)
EXTENDS Integers, Sequences, FiniteSets

VARIABLES
    classified,           \* espn_pbp.parse_event: last description and its event
    merged,               \* last call of combine_html_json_pbp / combine_espn_html_pbp
    resolved,             \* last run of get_players_json + combine_players_lists
    broken_shifts_games,  \* game_scraper.py:14
    broken_pbp_games,     \* game_scraper.py:15
    players_missing_ids,  \* game_scraper.py:16
    missing_coords,       \* game_scraper.py:17
    call,                 \* the last scrape_game / check_goalie call: inputs, trace, result
    ncalls,               \* number of calls made in this process
    workers               \* the threads that scrape games side by side: where each one is

vars == <<classified, merged, resolved, broken_shifts_games, broken_pbp_games,
          players_missing_ids, missing_coords, call, ncalls, workers>>

(***************************************************************************)
(* Python values                                                           *)
(***************************************************************************)
None == [none |-> TRUE]

IsNone(x) == "none" \in DOMAIN x

\* list(seq) with x appended: list.extend([x])
Extend(list, x) == Append(list, x)

Range(s) == {s[i] : i \in DOMAIN s}

\* an exception that left a function instead of a return value
Raised(kind) == [raised |-> kind]

IsRaised(x) == "raised" \in DOMAIN x

\* pd.DataFrame(rows): a table is the sequence of its rows
DataFrame(rows) == [rows |-> rows]

IsDataFrame(x) == "rows" \in DOMAIN x

\* the null of a DataFrame cell
NaN == "NaN"

(***************************************************************************)
(* Character strings                                                       *)
(***************************************************************************)
LowerCase == <<"a","b","c","d","e","f","g","h","i","j","k","l","m","n","o","p","q","r","s","t","u","v","w","x","y","z">>
UpperCase == <<"A","B","C","D","E","F","G","H","I","J","K","L","M","N","O","P","Q","R","S","T","U","V","W","X","Y","Z">>

\* str.upper() on one character
UpperChar(c) ==
    IF \E i \in DOMAIN LowerCase : LowerCase[i] = c
    THEN UpperCase[CHOOSE i \in DOMAIN LowerCase : LowerCase[i] = c]
    ELSE c

\* str.upper()
Upper(s) == [i \in DOMAIN s |-> UpperChar(s[i])]

\* Python's  k in d  on strings: k occurs in d as a contiguous substring
IsSubstring(k, d) ==
    \E i \in 1..(Len(d) - Len(k) + 1) : SubSeq(d, i, i + Len(k) - 1) = k

kwGoalScored == <<"G","O","A","L"," ","S","C","O","R","E","D">>
kwShotOnGoal == <<"S","H","O","T"," ","O","N"," ","G","O","A","L">>
kwShotMissed == <<"S","H","O","T"," ","M","I","S","S","E","D">>
kwShotBlocked == <<"S","H","O","T"," ","B","L","O","C","K","E","D">>
kwPenalty == <<"P","E","N","A","L","T","Y">>
kwFaceoff == <<"F","A","C","E","O","F","F">>
kwHit == <<"H","I","T">>
kwTakeaway == <<"T","A","K","E","A","W","A","Y">>
kwGiveaway == <<"G","I","V","E","A","W","A","Y">>

(***************************************************************************)
(* espn_pbp.event_type                                                     *)
(***************************************************************************)
\* the dict literal of event_type, in insertion order (the order a dict
\* iterates its keys in)
\* (mutant: the keys visited in sorted order instead of insertion order)
events_sorted ==
    << <<kwFaceoff, "FAC">>, <<kwGiveaway, "GIVE">>, <<kwGoalScored, "GOAL">>,
       <<kwHit, "HIT">>, <<kwPenalty, "PENL">>, <<kwShotBlocked, "BLOCK">>,
       <<kwShotMissed, "MISS">>, <<kwShotOnGoal, "SHOT">>, <<kwTakeaway, "TAKE">> >>

events ==
    << <<kwGoalScored, "GOAL">>, <<kwShotOnGoal, "SHOT">>, <<kwShotMissed, "MISS">>,
       <<kwShotBlocked, "BLOCK">>, <<kwPenalty, "PENL">>, <<kwFaceoff, "FAC">>,
       <<kwHit, "HIT">>, <<kwTakeaway, "TAKE">>, <<kwGiveaway, "GIVE">> >>

\* event = [events[e] for e in events.keys() if e in play_description]
\* return event[0] if event else None
event_type(play_description) ==
    LET hit(e) == IsSubstring(e[1], play_description)
        event == SelectSeq(events, hit)
    IN  IF event # <<>> THEN event[1][2] ELSE "None"

(***************************************************************************)
(* espn_pbp.parse_event, parse_espn, scrape_game                           *)
(* An event of the feed is the sequence of its '~'-separated fields        *)
(* (fields[k] of the code is fields[k+1] here).                            *)
(***************************************************************************)
\* float(s) for the coordinate fields: the strings that parse, and their value
FloatOf == [s \in {"12", "-7"} |-> IF s = "12" THEN "12.0" ELSE "-7.0"]

\* int(s), Series.astype(int) on the strings that parse
IntOf == [s \in {"1", "2", "5"} |-> IF s = "1" THEN 1 ELSE IF s = "2" THEN 2 ELSE 5]

\* shared.convert_to_seconds on "M:SS" clock strings
convert_to_seconds == [s \in {"0:10", "1:05"} |-> IF s = "0:10" THEN 10 ELSE 65]

\* the period field of a shootout event
ShootoutPeriod == "5"

parse_event(fields) ==
    IF Len(fields) < 5 THEN Raised("IndexError")
    ELSE IF fields[5] = ShootoutPeriod THEN None
    ELSE IF fields[1] \notin DOMAIN FloatOf \/ fields[2] \notin DOMAIN FloatOf
         THEN Raised("ValueError")
    ELSE IF fields[4] \notin DOMAIN convert_to_seconds THEN Raised("ValueError")
    ELSE IF Len(fields) < 9 THEN Raised("IndexError")
    ELSE [xC |-> FloatOf[fields[1]], yC |-> FloatOf[fields[2]],
          time_elapsed |-> convert_to_seconds[fields[4]],
          period |-> fields[5],
          event |-> event_type(Upper(fields[9]))]

\* espn_xml is [wellformed, children, events]: whether etree.fromstring accepts
\* the text, how many children the root has, and the events under tree[1]
parse_espn(espn_xml) ==
    IF ~espn_xml.wellformed THEN DataFrame(<<>>)
    ELSE IF espn_xml.children < 2 THEN Raised("IndexError")
    ELSE LET plays == [i \in DOMAIN espn_xml.events |-> parse_event(espn_xml.events[i])]
             notNone(play) == ~IsNone(play)
         IN  IF \E i \in DOMAIN plays : IsRaised(plays[i])
             THEN plays[CHOOSE i \in DOMAIN plays :
                          /\ IsRaised(plays[i])
                          /\ \A j \in 1..(i - 1) : ~IsRaised(plays[j])]
             ELSE DataFrame(SelectSeq(plays, notNone))

\* response is what get_espn_game obtained: None (it raised) or the xml
espn_scrape_game(response) ==
    IF IsNone(response) THEN None
    ELSE LET espn_df == parse_espn(response)
         IN  IF IsRaised(espn_df) THEN None ELSE espn_df

(***************************************************************************)
(* pandas operations used by the two merges                                *)
(* A textual-report (html) row is [Period, Event, Description,             *)
(* Seconds_Elapsed, p1_ID, Away_Team, Home_Team]; a structured (json) row  *)
(* is [period, event, seconds_elapsed, p1_ID, xC, yC]; an auxiliary (espn) *)
(* row is [period, time_elapsed, event, xC, yC].  A json table also lists  *)
(* the column labels it has.                                               *)
(***************************************************************************)
\* the rows rows[i], i in keep, in their order
RECURSIVE Pick(_, _, _)
Pick(rows, keep, i) ==
    IF i > Len(rows) THEN <<>>
    ELSE (IF i \in keep THEN <<rows[i]>> ELSE <<>>) \o Pick(rows, keep, i + 1)

RECURSIVE Flatten(_)
Flatten(ss) == IF ss = <<>> THEN <<>> ELSE Head(ss) \o Flatten(Tail(ss))

\* the subset key of drop_duplicates in both merges
DedupKey(row) == <<row.Period, row.Event, row.Description, row.Seconds_Elapsed>>

\* (mutant: drop_duplicates(..., keep='last'))
drop_duplicates_last(rows) ==
    Pick(rows, {i \in DOMAIN rows :
                  \A j \in (i + 1)..Len(rows) : DedupKey(rows[j]) # DedupKey(rows[i])}, 1)

\* DataFrame.drop_duplicates(subset=[Period, Event, Description, Seconds_Elapsed]),
\* keep='first'
drop_duplicates(rows) ==
    Pick(rows, {i \in DOMAIN rows :
                  \A j \in 1..(i - 1) : DedupKey(rows[j]) # DedupKey(rows[i])}, 1)

\* one merged row: the left row and the coordinates of the right row
Joined(l, xC, yC) ==
    [Period |-> l.Period, Event |-> l.Event, Description |-> l.Description,
     Seconds_Elapsed |-> l.Seconds_Elapsed, p1_ID |-> l.p1_ID,
     Away_Team |-> l.Away_Team, Home_Team |-> l.Home_Team, xC |-> xC, yC |-> yC]

\* pd.merge(left, right, left_on=..., right_on=..., how='left'), hits[i] being
\* the right rows whose key equals that of left row i: every left row in order,
\* once per matching right row in the right table's order, or once with nulls
\* when nothing matches
merge_left(left, right, hits) ==
    Flatten([i \in DOMAIN left |->
        IF hits[i] = {} THEN <<Joined(left[i], NaN, NaN)>>
        ELSE [k \in 1..Cardinality(hits[i]) |->
                LET r == Pick(right, hits[i], 1)[k] IN Joined(left[i], r.xC, r.yC)]])

\* pd.merge(left, right, left_index=True, right_index=True, how='left') on two
\* tables with the default index 0..n-1
merge_index(left, right) ==
    [i \in DOMAIN left |->
        IF i \in DOMAIN right THEN Joined(left[i], right[i].xC, right[i].yC)
        ELSE Joined(left[i], NaN, NaN)]

\* left_on=['Period','Event','Seconds_Elapsed','p1_ID'],
\* right_on=['period','event','seconds_elapsed','p1_ID']
MatchJson(l, r) ==
    /\ l.Period = r.period
    /\ l.Event = r.event
    /\ l.Seconds_Elapsed = r.seconds_elapsed
    /\ l.p1_ID = r.p1_ID

\* left_on=['Period','Seconds_Elapsed','Event'], right_on=['period','time_elapsed','event']
MatchEspn(l, r) ==
    /\ l.Period = r.period
    /\ l.Seconds_Elapsed = r.time_elapsed
    /\ l.Event = r.event

\* game_id[-5:] of the ten-digit game id
Last5(game_id) == game_id % 100000

\* pd.DataFrame(df, columns=pbp_columns) after the stamps: every row has the
\* output columns, a column the frame lacks is null
Stamped(rows, game_id, date, teams) ==
    DataFrame([i \in DOMAIN rows |->
        [Period |-> rows[i].Period, Event |-> rows[i].Event,
         Description |-> rows[i].Description,
         Seconds_Elapsed |-> rows[i].Seconds_Elapsed, p1_ID |-> rows[i].p1_ID,
         Away_Team |-> IF IsNone(teams) THEN rows[i].Away_Team ELSE teams.Away,
         Home_Team |-> IF IsNone(teams) THEN rows[i].Home_Team ELSE teams.Home,
         xC |-> IF "xC" \in DOMAIN rows[i] THEN rows[i].xC ELSE NaN,
         yC |-> IF "yC" \in DOMAIN rows[i] THEN rows[i].yC ELSE NaN,
         Game_Id |-> Last5(game_id), Date |-> date,
         Home_Coach |-> NaN, Away_Coach |-> NaN]])

(***************************************************************************)
(* game_scraper.combine_html_json_pbp                                      *)
(***************************************************************************)
DroppedColumns == {"p1_name", "p2_name", "p2_ID", "p3_name", "p3_ID"}

PositionalColumns == {"period", "event", "seconds_elapsed", "xC", "yC"}

KeyColumns == {"period", "event", "seconds_elapsed", "p1_ID"}

\* the merged rows of the try block (lines 148-172), or the exception it catches
html_json_merge(json_df, html_df) ==
    IF Len(html_df.rows) = Len(json_df.rows)
    THEN IF ~(PositionalColumns \subseteq json_df.columns) THEN Raised("KeyError")
         ELSE DataFrame(drop_duplicates(merge_index(html_df.rows, json_df.rows)))
    ELSE IF ~(KeyColumns \subseteq json_df.columns) THEN Raised("KeyError")
         ELSE LET right == [i \in DOMAIN json_df.rows |->
                               [period |-> json_df.rows[i].period,
                                event |-> json_df.rows[i].event,
                                seconds_elapsed |-> json_df.rows[i].seconds_elapsed,
                                p1_ID |-> json_df.rows[i].p1_ID,
                                xC |-> IF "xC" \in json_df.columns
                                       THEN json_df.rows[i].xC ELSE NaN,
                                yC |-> IF "yC" \in json_df.columns
                                       THEN json_df.rows[i].yC ELSE NaN]]
              IN  DataFrame(drop_duplicates(merge_left(html_df.rows, right,
                      [i \in DOMAIN html_df.rows |->
                          {j \in DOMAIN right : MatchJson(html_df.rows[i], right[j])}])))

\* returns the table, None (the except branch), or Raised: the exception of
\* json_df.drop at line 146, which no try encloses (AttributeError on None,
\* KeyError on a label the table lacks)
combine_html_json_pbp(json_df, html_df, game_id, date) ==
    IF IsNone(json_df) THEN Raised("AttributeError")
    ELSE IF ~(DroppedColumns \subseteq json_df.columns) THEN Raised("KeyError")
    ELSE LET game_df == html_json_merge(json_df, html_df)
         IN  IF IsRaised(game_df) THEN None
             ELSE Stamped(game_df.rows, game_id, date, None)

(***************************************************************************)
(* game_scraper.combine_espn_html_pbp                                      *)
(***************************************************************************)
\* the merged rows of the try block (lines 199-207), or the exception it catches
espn_html_merge(html_df, espn_df) ==
    IF \E i \in DOMAIN espn_df.rows : espn_df.rows[i].period \notin DOMAIN IntOf
    THEN Raised("ValueError")
    ELSE LET right == [i \in DOMAIN espn_df.rows |->
                          [period |-> IntOf[espn_df.rows[i].period],
                           time_elapsed |-> espn_df.rows[i].time_elapsed,
                           event |-> espn_df.rows[i].event,
                           xC |-> espn_df.rows[i].xC, yC |-> espn_df.rows[i].yC]]
         IN  DataFrame(drop_duplicates(merge_left(html_df.rows, right,
                 [i \in DOMAIN html_df.rows |->
                     {j \in DOMAIN right : MatchEspn(html_df.rows[i], right[j])}])))

combine_espn_html_pbp(html_df, espn_df, game_id, date, away_team, home_team) ==
    LET teams == [Away |-> away_team, Home |-> home_team]
    IN  IF ~IsNone(espn_df)
        THEN LET game_df == espn_html_merge(html_df, espn_df)
             IN  IF IsRaised(game_df) THEN None
                 ELSE Stamped(game_df.rows, game_id, date, teams)
        ELSE Stamped(html_df.rows, game_id, date, teams)

(***************************************************************************)
(* Player identity resolution: game_scraper.get_players_json,              *)
(* get_sebastian_aho, combine_players_lists, get_teams_and_players         *)
(* The player directory of the json is the sequence of its entries in key  *)
(* order; an entry is [fullName, lastName] with or without an id field.    *)
(* A roster entry is [number, pos, name, scratch] (player[0..3]).  A dict  *)
(* is a function on its keys.                                              *)
(***************************************************************************)
\* str.upper() on the names of the model
NameUpper(n) ==
    CASE n = "Sebastian Aho" -> "SEBASTIAN AHO"
      [] n = "Alex Ovechkin" -> "ALEX OVECHKIN"
      [] n = "Aho" -> "AHO"
      [] n = "Ovechkin" -> "OVECHKIN"
      [] OTHER -> n

\* shared.fix_name: a known variant spelling is replaced by the name the json uses
fix_name(n) == IF n = "ALEXANDER OVECHKIN" THEN "ALEX OVECHKIN" ELSE n

\* d[k] = v
Put(d, k, v) == [x \in DOMAIN d \cup {k} |-> IF x = k THEN v ELSE d[x]]

EmptyDict == [x \in {} |-> None]

NA == "NA"

\* one iteration of the loop of get_players_json (lines 71-77)
json_entry(players, entry) ==
    LET name == fix_name(NameUpper(entry.fullName))
    IN  Put(players, name,
            [id |-> IF "id" \in DOMAIN entry THEN entry.id ELSE NA,
             last_name |-> NameUpper(entry.lastName)])

RECURSIVE get_players_json(_)
get_players_json(players_json) ==
    IF players_json = <<>> THEN EmptyDict
    ELSE json_entry(get_players_json(SubSeq(players_json, 1, Len(players_json) - 1)),
                    players_json[Len(players_json)])

get_sebastian_aho(player) == IF player.pos = "D" THEN "8480222" ELSE "8478427"

\* (mutant: the condition of the spec's wording, "scratch and not a goalie" is
\* the one case left out)
roster_entry_goalies_recorded(acc, player, json_players, game_id) ==
    LET name == fix_name(player.name)
    IN  IF name \in DOMAIN json_players
        THEN [players |-> Put(acc.players, name,
                  [id |-> IF name # "SEBASTIAN AHO" THEN json_players[name].id
                          ELSE get_sebastian_aho(player),
                   number |-> player.number,
                   last_name |-> json_players[name].last_name]),
              missing |-> acc.missing]
        ELSE IF ~(player.scratch /\ player.pos # "G")
        THEN [players |-> Put(acc.players, name,
                  [id |-> NA, number |-> player.number, last_name |-> ""]),
              missing |-> Extend(acc.missing, <<player.name, game_id>>)]
        ELSE acc

\* one iteration of the inner loop of combine_players_lists (lines 96-107) on
\* acc = [players: the venue's dict so far, missing: what was appended to
\* players_missing_ids so far]
roster_entry(acc, player, json_players, game_id) ==
    LET name == fix_name(player.name)
    IN  IF name \in DOMAIN json_players
        THEN [players |-> Put(acc.players, name,
                  [id |-> IF name # "SEBASTIAN AHO" THEN json_players[name].id
                          ELSE get_sebastian_aho(player),
                   number |-> player.number,
                   last_name |-> json_players[name].last_name]),
              missing |-> acc.missing]
        ELSE IF ~player.scratch /\ player.pos # "G"
        THEN [players |-> Put(acc.players, name,
                  [id |-> NA, number |-> player.number, last_name |-> ""]),
              missing |-> Extend(acc.missing, <<player.name, game_id>>)]
        ELSE acc

\* the inner loop over one venue's roster entries
RECURSIVE venue_players(_, _, _, _)
venue_players(entries, json_players, game_id, missing) ==
    IF entries = <<>> THEN [players |-> EmptyDict, missing |-> missing]
    ELSE roster_entry(venue_players(SubSeq(entries, 1, Len(entries) - 1),
                                    json_players, game_id, missing),
                      entries[Len(entries)], json_players, game_id)

\* returns [Home, Away: the two dicts, missing: the records appended to
\* players_missing_ids, in order]; the venues are visited Home first
combine_players_lists(json_players, roster_players, game_id) ==
    LET home == venue_players(roster_players.Home, json_players, game_id, <<>>)
        away == venue_players(roster_players.Away, json_players, game_id, home.missing)
    IN  [Home |-> home.players, Away |-> away.players, missing |-> away.missing]

\* game_json is None or [teams: what json_pbp.get_teams finds (None when it
\* raises), players: the directory, plays: the parsed play table].
\* Returns [players, teams, missing]; players and teams are None when anything
\* raised (roster or game_json None, get_teams raising).
get_teams_and_players(game_json, roster, game_id) ==
    IF IsNone(game_json) \/ IsNone(roster) THEN [players |-> None, teams |-> None, missing |-> <<>>]
    ELSE IF IsNone(game_json.teams) THEN [players |-> None, teams |-> None, missing |-> <<>>]
    ELSE LET player_ids == get_players_json(game_json.players)
             players == combine_players_lists(player_ids, roster.players, game_id)
         IN  [players |-> [Home |-> players.Home, Away |-> players.Away],
              teams |-> game_json.teams, missing |-> players.missing]

(***************************************************************************)
(* game_scraper.scrape_pbp, scrape_shifts, scrape_game, check_goalie       *)
(* A function that appends to a module-level list returns, beside its      *)
(* value, the records it appended; `trace` is the set of collaborators and *)
(* stages it called.                                                       *)
(***************************************************************************)
\* the season json coordinates and json shifts start with (lines 260, 308)
SeasonThreshold == 2010

\* int(str(game_id)[:4]) of a ten-digit game id
IdSeason(game_id) == game_id \div 1000000

\* shared.get_season(date): the season a date falls in
get_season(date) ==
    CASE date = "2009-10-01" -> 2009
      [] date = "2010-03-01" -> 2009
      [] date = "2016-10-24" -> 2016

\* a collaborator that was not called
NotCalled == [notcalled |-> TRUE]

\* game_df['Home_Coach'] = ..., game_df['Away_Coach'] = ... (lines 289-290)
WithCoaches(game_df, head_coaches) ==
    DataFrame([i \in DOMAIN game_df.rows |->
        [game_df.rows[i] EXCEPT !.Home_Coach = head_coaches.Home,
                                !.Away_Coach = head_coaches.Away]])

\* (mutant: a failed parse of the json plays falls through to the espn branch)
parse_failure_hard_degraded(json_df) == FALSE

\* lines 261-263: scrape_pbp gives up when parse_json returned None
parse_failure_hard(json_df) == IsNone(json_df)

\* line 283: espn_df is None or espn_df.empty
coords_missing(espn_df) == IsNone(espn_df) \/ espn_df.rows = <<>>

\* html is what html_pbp.scrape_game returns, espn what get_espn_game obtains.
\* Returns [pbp_df: a table, None or Raised, coords: the records appended to
\* missing_coords, trace, html_df, espn: the inputs it consumed].
scrape_pbp(game_id, date, roster, game_json, teams, html, espn) ==
    LET structured == IdSeason(game_id) >= SeasonThreshold
        json_df == IF structured THEN game_json.json_df ELSE NotCalled
        if_json == IF structured THEN game_json.allPlays > 0 ELSE FALSE
        t1 == IF structured THEN {"parse_json"} ELSE {}
        stop(t, h) == [pbp_df |-> None, coords |-> <<>>, trace |-> t,
                       html_df |-> h, espn |-> NotCalled]
    IN  IF structured /\ parse_failure_hard(json_df) THEN stop(t1, NotCalled)
        ELSE IF IsNone(html) THEN stop(t1 \cup {"html_pbp"}, html)
        ELSE IF ~if_json
        THEN LET espn_df == espn_scrape_game(espn)
                 game_df == combine_espn_html_pbp(html, espn_df, game_id, date,
                                                  teams.Away, teams.Home)
             IN  [pbp_df |-> IF IsNone(game_df) THEN None
                             ELSE WithCoaches(game_df, roster.head_coaches),
                  coords |-> IF coords_missing(espn_df) THEN << <<game_id, date>> >>
                             ELSE <<>>,
                  trace |-> t1 \cup {"html_pbp", "espn_pbp", "combine_espn_html_pbp"},
                  html_df |-> html, espn |-> espn]
        ELSE LET game_df == combine_html_json_pbp(json_df, html, game_id, date)
             IN  [pbp_df |-> IF IsNone(game_df) \/ IsRaised(game_df) THEN game_df
                             ELSE WithCoaches(game_df, roster.head_coaches),
                  coords |-> <<>>,
                  trace |-> t1 \cup {"html_pbp", "combine_html_json_pbp"},
                  html_df |-> html, espn |-> NotCalled]

\* json_shifts, html_shifts are what the two shift scrapers return.
\* Returns [shifts_df, broken: the records appended to broken_shifts_games,
\* json_shifts, html_shifts: the inputs it consumed].
scrape_shifts(game_id, date, json_shifts, html_shifts) ==
    LET asked == get_season(date) >= SeasonThreshold
        first == IF asked THEN json_shifts ELSE None
        used_html == IsNone(first)
        shifts_df == IF used_html THEN html_shifts ELSE first
    IN  [shifts_df |-> IF IsNone(shifts_df) THEN None
                       ELSE DataFrame([i \in DOMAIN shifts_df.rows |->
                                [shifts_df.rows[i] EXCEPT !.Date = date]]),
         broken |-> IF IsNone(shifts_df) THEN << <<game_id, date>> >> ELSE <<>>,
         json_shifts |-> IF asked THEN json_shifts ELSE NotCalled,
         html_shifts |-> IF used_html THEN html_shifts ELSE NotCalled]

\* (mutant: the hard failure records broken shifts whether or not they were asked for)
hard_fail_shifts_always(if_scrape_shifts, key) == <<key>>

\* lines 346-347: the broken-shifts record of the hard failure
hard_fail_shifts(if_scrape_shifts, key) == IF if_scrape_shifts THEN <<key>> ELSE <<>>

\* line 344: not roster or not game_json or not teams or not players
prerequisites_missing(roster, game_json, teams, players) ==
    IsNone(roster) \/ IsNone(game_json) \/ IsNone(teams) \/ IsNone(players)

\* scrape_game runs in three stages, each an operator here: the prerequisites
\* (lines 339-348), the play-by-play (lines 350, 356-357) and the shifts
\* (lines 353-354).

\* lines 339-348: [players, teams: what get_teams_and_players returned, failed:
\* whether the game hard-fails, broken_pbp, broken_shifts, missing: the records
\* appended to broken_pbp_games, broken_shifts_games, players_missing_ids]
scrape_game_prerequisites(game_id, date, if_scrape_shifts, roster, game_json) ==
    LET key == <<game_id, date>>
        tp == get_teams_and_players(game_json, roster, game_id)
        failed == prerequisites_missing(roster, game_json, tp.teams, tp.players)
    IN  [players |-> tp.players, teams |-> tp.teams, failed |-> failed,
         broken_pbp |-> IF failed THEN <<key>> ELSE <<>>,
         broken_shifts |-> IF failed THEN hard_fail_shifts(if_scrape_shifts, key) ELSE <<>>,
         missing |-> tp.missing]

\* (mutant: shifts are scraped whenever they were asked for, pbp or no pbp)
shifts_wanted_always(if_scrape_shifts, pbp_df) == if_scrape_shifts

\* line 353: if if_scrape_shifts and pbp_df is not None
shifts_wanted(if_scrape_shifts, pbp_df) == if_scrape_shifts /\ ~IsNone(pbp_df)

\* lines 356-357: the broken-pbp record of a call that got no pbp table
broken_pbp_record(pbp_df, key) == IF IsNone(pbp_df) THEN <<key>> ELSE <<>>

\* the records check_goalie appends to players_missing_ids for one side
goalie_missing(list, name, id, game_id) ==
    IF name # "" /\ id = NA /\ <<name, game_id>> \notin Range(list)
    THEN <<<<name, game_id>>>> ELSE <<>>

\* check_goalie(row): the list after the two checks, away side first
check_goalie(list, row) ==
    LET away == list \o goalie_missing(list, row.Away_Goalie, row.Away_Goalie_Id, row.Game_Id)
    IN  away \o goalie_missing(away, row.Home_Goalie, row.Home_Goalie_Id, row.Game_Id)

(***************************************************************************)
(* Bounds and the inputs the specifications draw from                      *)
(***************************************************************************)
MaxFrags == 2       \* fragments a description is put together from
MaxRows == 2        \* rows of a table handed to a merge
MaxDirectory == 2   \* entries of the json player directory
MaxRoster == 2      \* entries of the home roster
MaxCalls == 2       \* calls made in one process

SeqsUpTo(S, n) == UNION {[1..k -> S] : k \in 0..n}

\* sequences of fragments, concatenated
Descriptions ==
    LET Fragments == {kwGoalScored, kwShotOnGoal, kwShotMissed, kwShotBlocked, kwPenalty,
                      kwFaceoff, kwHit, kwTakeaway, kwGiveaway,
                      <<"S","h","o","t"," ","o","n"," ","g","o","a","l">>,
                      <<"G","o","a","l"," ","s","c","o","r","e","d">>,
                      <<" ","b","y"," ","W","h","i","t","e">>,
                      <<"u","n","r","e","l","a","t","e","d"," ","t","e","x","t">>}
    IN  {Flatten(fs) : fs \in SeqsUpTo(Fragments, MaxFrags)}

\* textual-report rows: h1 and h2 share (Period, Event, Description,
\* Seconds_Elapsed) and differ in p1_ID; h3 is a challenge; h4 a shootout shot
h1 == [Period |-> 1, Event |-> "SHOT", Description |-> "shot on goal", Seconds_Elapsed |-> 10,
       p1_ID |-> "8471214", Away_Team |-> "MTL", Home_Team |-> "WSH"]
h2 == [h1 EXCEPT !.p1_ID = "8478427"]
h3 == [h1 EXCEPT !.Event = "CHL", !.Description = "challenge", !.p1_ID = NaN]
h4 == [h1 EXCEPT !.Period = 5, !.Description = "shootout shot", !.Seconds_Elapsed = 0]

\* structured rows: j1 and j2 share the join key of h1; j3 has the key of h4
j1 == [period |-> 1, event |-> "SHOT", seconds_elapsed |-> 10, p1_ID |-> "8471214",
       xC |-> "12.0", yC |-> "-7.0"]
j2 == [j1 EXCEPT !.xC = "-7.0", !.yC = "12.0"]
j3 == [j1 EXCEPT !.period = 5, !.seconds_elapsed = 0]

\* auxiliary rows as parse_espn leaves them (period still a string): e1 and e2
\* share the join key of h1; the period of e3 is not a number
e1 == [period |-> "1", time_elapsed |-> 10, event |-> "SHOT", xC |-> "12.0", yC |-> "-7.0"]
e2 == [e1 EXCEPT !.xC = "-7.0", !.yC = "12.0"]
e3 == [e1 EXCEPT !.period = "OT"]

AllJsonColumns == DroppedColumns \cup KeyColumns \cup {"xC", "yC"}

\* tables of pairwise different rows
HtmlTables ==
    {DataFrame(rows) : rows \in {s \in SeqsUpTo({h1, h2, h3, h4}, MaxRows) :
                                    \A i, j \in DOMAIN s : s[i] = s[j] => i = j}}

JsonTables ==
    {[rows |-> rows, columns |-> cols] :
        rows \in SeqsUpTo({j1, j2, j3}, MaxRows),
        cols \in {AllJsonColumns, AllJsonColumns \ {"xC"}, AllJsonColumns \ {"p3_name"}}}

EspnTables == {None} \cup {DataFrame(rows) : rows \in SeqsUpTo({e1, e2, e3}, MaxRows)}

TheGame == [game_id |-> 2016020001, date |-> "2016-10-24"]

\* directory entries: d2 and d3 are the two players named Sebastian Aho, d3
\* without an id
d1 == [fullName |-> "Alex Ovechkin", lastName |-> "Ovechkin", id |-> "8471214"]
d2 == [fullName |-> "Sebastian Aho", lastName |-> "Aho", id |-> "8478427"]
d3 == [fullName |-> "Sebastian Aho", lastName |-> "Aho"]

Directories == SeqsUpTo({d1, d2, d3}, MaxDirectory)

\* roster entries
r1 == [number |-> "8", pos |-> "L", name |-> "ALEX OVECHKIN", scratch |-> FALSE]
r2 == [number |-> "8", pos |-> "L", name |-> "ALEXANDER OVECHKIN", scratch |-> TRUE]
r3 == [number |-> "20", pos |-> "C", name |-> "SEBASTIAN AHO", scratch |-> FALSE]
r4 == [number |-> "28", pos |-> "D", name |-> "SEBASTIAN AHO", scratch |-> FALSE]
r5 == [number |-> "11", pos |-> "R", name |-> "BRENDAN GALLAGHER", scratch |-> FALSE]
r6 == [number |-> "11", pos |-> "R", name |-> "BRENDAN GALLAGHER", scratch |-> TRUE]
r7 == [number |-> "31", pos |-> "G", name |-> "CAREY PRICE", scratch |-> FALSE]
r8 == [number |-> "31", pos |-> "G", name |-> "CAREY PRICE", scratch |-> TRUE]

RosterPlayers ==
    {[Home |-> home, Away |-> away] :
        home \in SeqsUpTo({r1, r2, r3, r4, r5, r6, r7, r8}, MaxRoster),
        away \in {<<>>, <<r5>>}}

\* what one scrape_game call can meet: two games, one before and one after the
\* season threshold
Games == {[game_id |-> 2009020001, date |-> "2009-10-01"], TheGame}

HeadCoaches == [Home |-> "BARRY TROTZ", Away |-> "CLAUDE JULIEN"]

\* playing_roster.scrape_roster: nothing, a roster whose players all resolve,
\* or one that lists the same unresolved skater twice
Rosters ==
    {None,
     [players |-> [Home |-> <<r1>>, Away |-> <<>>], head_coaches |-> HeadCoaches],
     [players |-> [Home |-> <<r5, r5>>, Away |-> <<>>], head_coaches |-> HeadCoaches]}

Teams == [Home |-> "WSH", Away |-> "MTL"]

\* json_pbp.get_pbp: nothing, a feed get_teams fails on, a feed without plays,
\* a feed with two plays (parsed, unparseable, parsed without the xC column,
\* parsed without the p3_name column)
GameJsons ==
    {None,
     [teams |-> None, players |-> <<d1>>, allPlays |-> 0,
      json_df |-> [rows |-> <<>>, columns |-> AllJsonColumns]]}
    \cup
    {[teams |-> Teams, players |-> <<d1>>, allPlays |-> n, json_df |-> df] :
        n \in {0}, df \in {[rows |-> <<>>, columns |-> AllJsonColumns]}}
    \cup
    {[teams |-> Teams, players |-> <<d1>>, allPlays |-> n, json_df |-> df] :
        n \in {2}, df \in {None,
                            [rows |-> <<j1, j3>>, columns |-> AllJsonColumns],
                            [rows |-> <<j1, j3>>, columns |-> AllJsonColumns \ {"xC"}],
                            [rows |-> <<j1, j3>>, columns |-> AllJsonColumns \ {"p3_name"}]}}

\* the feeds tried for a game: parse_json is not called for a game id before the
\* season threshold (line 260), so there one parsed table stands for all
GameJsonsOf(game) ==
    IF IdSeason(game.game_id) >= SeasonThreshold THEN GameJsons
    ELSE {j \in GameJsons :
            IsNone(j) \/ (~IsNone(j.json_df) /\ j.json_df.columns = AllJsonColumns)}

\* html_pbp.scrape_game: nothing, a report of two rows with different tuples, a
\* report of two rows with the same tuple
HtmlReports == {None, DataFrame(<<h1, h4>>), DataFrame(<<h1, h2>>)}

GoodEvent == <<"12", "-7", "", "0:10", "1", "", "", "",
               <<"S","h","o","t"," ","o","n"," ","g","o","a","l">>
                  \o <<" ","b","y"," ","W","h","i","t","e">> >>

\* get_espn_game: nothing (it raised), text that is not xml, a feed with one
\* event, a feed whose second event has too few fields, a feed whose event is
\* of period "OT"
EspnFeeds ==
    {None,
     [wellformed |-> FALSE, children |-> 0, events |-> <<>>],
     [wellformed |-> TRUE, children |-> 2, events |-> <<GoodEvent>>],
     [wellformed |-> TRUE, children |-> 2, events |-> <<GoodEvent, <<"12", "-7">> >>],
     [wellformed |-> TRUE, children |-> 2, events |-> <<[GoodEvent EXCEPT ![5] = "OT"]>>]}

\* json_shifts.scrape_game, html_shifts.scrape_game: nothing or a shift table
ShiftTables ==
    {None, DataFrame(<<[Player |-> "ALEX OVECHKIN", Period |-> 1, Date |-> NaN]>>)}

\* the goalie columns of a row of the final table, for check_goalie
GoalieRows ==
    LET side == {<<"", NaN>>, <<"CAREY PRICE", NA>>, <<"BRADEN HOLTBY", "8474651">>}
    IN  {[Away_Goalie |-> a[1], Away_Goalie_Id |-> a[2],
          Home_Goalie |-> h[1], Home_Goalie_Id |-> h[2],
          Game_Id |-> Last5(TheGame.game_id)] : a \in side, h \in side}

(***************************************************************************)
(* Specifications                                                          *)
(***************************************************************************)
ClassifiedIdle == [done |-> FALSE, fields |-> <<>>, play |-> None]

MergedIdle == [fn |-> "none", done |-> FALSE]

ResolvedIdle == [done |-> FALSE]

CallIdle == [fn |-> "none", pc |-> "idle", outcome |-> "none"]

\* no thread besides the main one
NoWorkers == <<>>

NoCalls ==
    /\ broken_shifts_games = <<>>
    /\ broken_pbp_games = <<>>
    /\ players_missing_ids = <<>>
    /\ missing_coords = <<>>
    /\ call = CallIdle
    /\ ncalls = 0
    /\ workers = NoWorkers

lists == <<broken_shifts_games, broken_pbp_games, players_missing_ids, missing_coords>>

(* SpecEvent: parse_event on one event of the auxiliary feed *)
InitEvent ==
    /\ classified \in {[done |-> FALSE, play |-> None,
                         fields |-> <<"12", "-7", "", "0:10", period, "", "", "", d>>] :
                            d \in Descriptions, period \in {"1", ShootoutPeriod}}
    /\ merged = MergedIdle
    /\ resolved = ResolvedIdle
    /\ NoCalls

ParseEvent ==
    /\ ~classified.done
    /\ classified' = [classified EXCEPT !.done = TRUE,
                                        !.play = parse_event(classified.fields)]
    /\ UNCHANGED <<workers, merged, resolved, lists, call, ncalls>>

NextEvent == ParseEvent

SpecEvent == InitEvent /\ [][NextEvent]_vars

(* SpecMerge: one call of either merge on a pair of tables *)
InitMerge ==
    /\ classified = ClassifiedIdle
    /\ merged \in
          {[fn |-> "combine_html_json_pbp", done |-> FALSE, html_df |-> h, other |-> j,
            game_df |-> None] : h \in HtmlTables, j \in JsonTables}
          \cup
          {[fn |-> "combine_espn_html_pbp", done |-> FALSE, html_df |-> h, other |-> e,
            game_df |-> None] : h \in HtmlTables, e \in EspnTables}
    /\ resolved = ResolvedIdle
    /\ NoCalls

CombineHtmlJsonPbp ==
    /\ merged.fn = "combine_html_json_pbp" /\ ~merged.done
    /\ merged' = [merged EXCEPT !.done = TRUE,
                     !.game_df = combine_html_json_pbp(merged.other, merged.html_df,
                                                       TheGame.game_id, TheGame.date)]
    /\ UNCHANGED <<workers, classified, resolved, lists, call, ncalls>>

CombineEspnHtmlPbp ==
    /\ merged.fn = "combine_espn_html_pbp" /\ ~merged.done
    /\ merged' = [merged EXCEPT !.done = TRUE,
                     !.game_df = combine_espn_html_pbp(merged.html_df, merged.other,
                                                       TheGame.game_id, TheGame.date,
                                                       "MTL", "WSH")]
    /\ UNCHANGED <<workers, classified, resolved, lists, call, ncalls>>

NextMerge == CombineHtmlJsonPbp \/ CombineEspnHtmlPbp

SpecMerge == InitMerge /\ [][NextMerge]_vars

(* SpecPlayers: one run of identity resolution for a game *)
InitPlayers ==
    /\ classified = ClassifiedIdle
    /\ merged = MergedIdle
    /\ resolved \in {[done |-> FALSE, players_json |-> d, roster_players |-> r,
                       game_id |-> TheGame.game_id,
                       json_players |-> EmptyDict, Home |-> EmptyDict, Away |-> EmptyDict] :
                          d \in Directories, r \in RosterPlayers}
    /\ NoCalls

\* lines 124-125 of get_teams_and_players
ResolvePlayers ==
    /\ ~resolved.done
    /\ LET player_ids == get_players_json(resolved.players_json)
           players == combine_players_lists(player_ids, resolved.roster_players,
                                            resolved.game_id)
       IN  /\ resolved' = [resolved EXCEPT !.done = TRUE, !.json_players = player_ids,
                                           !.Home = players.Home, !.Away = players.Away]
           /\ players_missing_ids' = players_missing_ids \o players.missing
    /\ UNCHANGED <<workers, classified, merged, broken_shifts_games, broken_pbp_games,
                   missing_coords, call, ncalls>>

NextPlayers == ResolvePlayers

SpecPlayers == InitPlayers /\ [][NextPlayers]_vars

(* Spec: scrape_game and check_goalie calls of one process, one after another *)
Init ==
    /\ classified = ClassifiedIdle
    /\ merged = MergedIdle
    /\ resolved = ResolvedIdle
    /\ NoCalls

\* the lengths of the four lists when a call starts
Lengths ==
    [broken_pbp |-> Len(broken_pbp_games), broken_shifts |-> Len(broken_shifts_games),
     players |-> Len(players_missing_ids), coords |-> Len(missing_coords)]

\* no call is under way and another may start: an exception that leaves
\* scrape_game ends the caller's loop over the games
Running == ncalls < MaxCalls /\ call.outcome \in {"none", "returned"} /\ call.pc \in {"idle", "done"}

\* the part of `call` a scrape_game call starts with
Started(game, if_scrape_shifts, roster, game_json) ==
    [fn |-> "scrape_game", game_id |-> game.game_id, date |-> game.date,
     if_scrape_shifts |-> if_scrape_shifts, roster |-> roster, game_json |-> game_json,
     teams |-> None, html_df |-> NotCalled, espn |-> NotCalled,
     json_shifts |-> NotCalled, html_shifts |-> NotCalled,
     pc |-> "prerequisites", outcome |-> "none",
     trace |-> {"scrape_roster", "get_pbp", "get_teams_and_players"},
     pbp_df |-> None, shifts_df |-> None, before |-> Lengths]

\* scrape_game, lines 336-348: a call starts, fetches the roster and the json,
\* resolves the players, and hard-fails when a prerequisite is missing
ScrapeGamePrerequisites ==
    /\ Running
    /\ \E game \in Games, if_scrape_shifts \in BOOLEAN, roster \in Rosters :
       \E game_json \in GameJsonsOf(game) :
          LET r == scrape_game_prerequisites(game.game_id, game.date, if_scrape_shifts,
                                             roster, game_json)
              c == Started(game, if_scrape_shifts, roster, game_json)
          IN  /\ call' = IF r.failed
                         THEN [c EXCEPT !.pc = "done", !.outcome = "returned"]
                         ELSE [c EXCEPT !.pc = "scrape_pbp", !.teams = r.teams]
              /\ broken_pbp_games' = broken_pbp_games \o r.broken_pbp
              /\ broken_shifts_games' = broken_shifts_games \o r.broken_shifts
              /\ players_missing_ids' = players_missing_ids \o r.missing
    /\ ncalls' = ncalls + 1
    /\ UNCHANGED <<workers, classified, merged, resolved, missing_coords>>

\* scrape_game, lines 350 and 356-359: scrape_pbp runs; its exception leaves
\* scrape_game; without shifts to scrape the call returns
ScrapeGamePbp ==
    /\ call.fn = "scrape_game" /\ call.pc = "scrape_pbp"
    /\ \E html \in HtmlReports, espn \in EspnFeeds :
          LET pbp == scrape_pbp(call.game_id, call.date, call.roster, call.game_json,
                                call.teams, html, espn)
              c == [call EXCEPT !.trace = @ \cup {"scrape_pbp"} \cup pbp.trace,
                                !.html_df = pbp.html_df, !.espn = pbp.espn,
                                !.pbp_df = pbp.pbp_df]
              key == <<call.game_id, call.date>>
          IN  /\ missing_coords' = missing_coords \o pbp.coords
              /\ IF IsRaised(pbp.pbp_df)
                 THEN /\ call' = [c EXCEPT !.pc = "done", !.outcome = "raised"]
                      /\ UNCHANGED broken_pbp_games
                 ELSE IF shifts_wanted(call.if_scrape_shifts, pbp.pbp_df)
                 THEN /\ call' = [c EXCEPT !.pc = "scrape_shifts"]
                      /\ UNCHANGED broken_pbp_games
                 ELSE /\ call' = [c EXCEPT !.pc = "done", !.outcome = "returned"]
                      /\ broken_pbp_games' =
                            broken_pbp_games \o broken_pbp_record(pbp.pbp_df, key)
    /\ UNCHANGED <<workers, classified, merged, resolved, broken_shifts_games,
                   players_missing_ids, ncalls>>

\* scrape_game, lines 353-359: scrape_shifts runs and the call returns
ScrapeGameShifts ==
    /\ call.fn = "scrape_game" /\ call.pc = "scrape_shifts"
    /\ \E json_shifts \in ShiftTables, html_shifts \in ShiftTables :
          LET sh == scrape_shifts(call.game_id, call.date, json_shifts, html_shifts)
          IN  /\ call' = [call EXCEPT !.trace = @ \cup {"scrape_shifts"},
                                      !.json_shifts = sh.json_shifts,
                                      !.html_shifts = sh.html_shifts,
                                      !.shifts_df = sh.shifts_df,
                                      !.pc = "done", !.outcome = "returned"]
              /\ broken_shifts_games' = broken_shifts_games \o sh.broken
              /\ broken_pbp_games' =
                    broken_pbp_games \o broken_pbp_record(call.pbp_df, <<call.game_id, call.date>>)
    /\ UNCHANGED <<workers, classified, merged, resolved, players_missing_ids,
                   missing_coords, ncalls>>

CheckGoalie ==
    /\ Running
    /\ \E row \in GoalieRows :
          /\ call' = [fn |-> "check_goalie", row |-> row, pc |-> "done",
                      outcome |-> "returned", before |-> Lengths]
          /\ players_missing_ids' = check_goalie(players_missing_ids, row)
    /\ ncalls' = ncalls + 1
    /\ UNCHANGED <<workers, classified, merged, resolved, broken_shifts_games,
                   broken_pbp_games, missing_coords>>

Next == ScrapeGamePrerequisites \/ ScrapeGamePbp \/ ScrapeGameShifts \/ CheckGoalie

Spec == Init /\ [][Next]_vars

(* SpecWorkers: threads of one process scrape games side by side.  The four  *)
(* lists are module globals without a lock.  A thread can be switched out    *)
(* between any two bytecodes, so a step here is one access to a list:        *)
(* list.extend([x]) and `x not in list` run to their end in one piece, the   *)
(* `if` between them and the extend that follows it do not.                  *)
MaxWorkers == 2     \* threads scraping side by side

Workers == 1..MaxWorkers

WorkerIdle ==
    [pc |-> "idle", game |-> None, row |-> None, todo |-> <<>>, appended |-> <<>>]

\* the records `keys`, each to be appended to the list `name`
Todo(name, keys) == [i \in DOMAIN keys |-> [list |-> name, key |-> keys[i]]]

\* scrape_game(game_id, date, if_scrape_shifts): the appends it makes, in the
\* order of the code: line 106 (through get_teams_and_players), then lines 345
\* and 347 on the hard failure, else line 284 (scrape_pbp), line 319
\* (scrape_shifts) and line 357; an exception that leaves scrape_pbp ends them
scrape_game_appends(game, if_scrape_shifts, roster, game_json, html, espn, json_shifts, html_shifts) ==
    LET key == <<game.game_id, game.date>>
        pre == scrape_game_prerequisites(game.game_id, game.date, if_scrape_shifts,
                                         roster, game_json)
        pbp == scrape_pbp(game.game_id, game.date, roster, game_json, pre.teams, html, espn)
        sh == scrape_shifts(game.game_id, game.date, json_shifts, html_shifts)
    IN  Todo("players_missing_ids", pre.missing) \o
        (IF pre.failed
         THEN Todo("broken_pbp_games", pre.broken_pbp)
                 \o Todo("broken_shifts_games", pre.broken_shifts)
         ELSE Todo("missing_coords", pbp.coords) \o
              (IF IsRaised(pbp.pbp_df) THEN <<>>
               ELSE (IF shifts_wanted(if_scrape_shifts, pbp.pbp_df)
                     THEN Todo("broken_shifts_games", sh.broken) ELSE <<>>)
                    \o Todo("broken_pbp_games", broken_pbp_record(pbp.pbp_df, key))))

\* what the threads are given: every game goes to one thread, once; a roster is
\* missing or lists an unresolved skater once; the json is missing or without
\* plays; the report, the auxiliary feed and the html shift table are there or
\* not, the json shift table is not.
\* The two games share the last five digits of their ids, the Game_Id of the
\* rows check_goalie sees.
WorkerRosters ==
    {None, [players |-> [Home |-> <<r5>>, Away |-> <<>>], head_coaches |-> HeadCoaches]}

WorkerJsons == {j \in GameJsons : IsNone(j) \/ (~IsNone(j.teams) /\ j.allPlays = 0)}

WorkerReports == {None, DataFrame(<<h1, h4>>)}

WorkerFeeds == {None, [wellformed |-> TRUE, children |-> 2, events |-> <<GoodEvent>>]}

GamesTaken == {workers[v].game : v \in Workers}

\* a thread calls scrape_game for a game of its own; what it fetches does not
\* depend on the lists, so the appends to come are known from here on
WorkerScrapeGame(w) ==
    /\ workers[w].pc = "idle" /\ IsNone(workers[w].game)
    /\ ncalls < MaxCalls
    /\ \E game \in Games \ GamesTaken, if_scrape_shifts \in BOOLEAN,
          roster \in WorkerRosters, game_json \in WorkerJsons :
       \E html \in WorkerReports, espn \in WorkerFeeds, html_shifts \in ShiftTables :
          LET todo == scrape_game_appends(game, if_scrape_shifts, roster, game_json,
                                          html, espn, None, html_shifts)
          IN  workers' = [workers EXCEPT ![w].game = game, ![w].todo = todo,
                             ![w].pc = IF todo = <<>> THEN "idle" ELSE "extend"]
    /\ ncalls' = ncalls + 1
    /\ UNCHANGED <<classified, merged, resolved, lists, call>>

\* one list.extend([[...]]) of scrape_game
WorkerExtend(w) ==
    /\ workers[w].pc = "extend"
    /\ LET a == Head(workers[w].todo)
           rest == Tail(workers[w].todo)
       IN  /\ broken_pbp_games' = IF a.list = "broken_pbp_games"
                                  THEN Extend(broken_pbp_games, a.key) ELSE broken_pbp_games
           /\ broken_shifts_games' = IF a.list = "broken_shifts_games"
                                     THEN Extend(broken_shifts_games, a.key)
                                     ELSE broken_shifts_games
           /\ players_missing_ids' = IF a.list = "players_missing_ids"
                                     THEN Extend(players_missing_ids, a.key)
                                     ELSE players_missing_ids
           /\ missing_coords' = IF a.list = "missing_coords"
                                THEN Extend(missing_coords, a.key) ELSE missing_coords
           /\ workers' = [workers EXCEPT ![w].todo = rest,
                             ![w].appended = Append(@, a),
                             ![w].pc = IF rest = <<>> THEN "idle" ELSE "extend"]
    /\ UNCHANGED <<classified, merged, resolved, call, ncalls>>

\* check_goalie(row), lines 38-39: both conditions of the away side, the second
\* of them the look through players_missing_ids
WorkerGoalieAwayTest(w) ==
    /\ workers[w].pc = "idle"
    /\ ncalls < MaxCalls
    /\ \E row \in GoalieRows :
          LET new == goalie_missing(players_missing_ids, row.Away_Goalie,
                                    row.Away_Goalie_Id, row.Game_Id)
          IN  workers' = [workers EXCEPT ![w].row = row,
                             ![w].pc = IF new # <<>> THEN "line 40" ELSE "line 42"]
    /\ ncalls' = ncalls + 1
    /\ UNCHANGED <<classified, merged, resolved, lists, call>>

\* check_goalie, line 40: the extend the away test led to
WorkerGoalieAwayExtend(w) ==
    /\ workers[w].pc = "line 40"
    /\ LET key == <<workers[w].row.Away_Goalie, workers[w].row.Game_Id>>
       IN  /\ players_missing_ids' = Extend(players_missing_ids, key)
           /\ workers' = [workers EXCEPT ![w].pc = "line 42",
                             ![w].appended = Append(@, [list |-> "players_missing_ids",
                                                        key |-> key])]
    /\ UNCHANGED <<classified, merged, resolved, broken_shifts_games, broken_pbp_games,
                   missing_coords, call, ncalls>>

\* check_goalie, lines 42-43: both conditions of the home side
WorkerGoalieHomeTest(w) ==
    /\ workers[w].pc = "line 42"
    /\ LET row == workers[w].row
           new == goalie_missing(players_missing_ids, row.Home_Goalie,
                                 row.Home_Goalie_Id, row.Game_Id)
       IN  workers' = [workers EXCEPT ![w].pc = IF new # <<>> THEN "line 44" ELSE "idle",
                                      ![w].row = IF new # <<>> THEN @ ELSE None]
    /\ UNCHANGED <<classified, merged, resolved, lists, call, ncalls>>

\* check_goalie, line 44: the extend the home test led to
WorkerGoalieHomeExtend(w) ==
    /\ workers[w].pc = "line 44"
    /\ LET key == <<workers[w].row.Home_Goalie, workers[w].row.Game_Id>>
       IN  /\ players_missing_ids' = Extend(players_missing_ids, key)
           /\ workers' = [workers EXCEPT ![w].pc = "idle", ![w].row = None,
                             ![w].appended = Append(@, [list |-> "players_missing_ids",
                                                        key |-> key])]
    /\ UNCHANGED <<classified, merged, resolved, broken_shifts_games, broken_pbp_games,
                   missing_coords, call, ncalls>>

InitWorkers ==
    /\ classified = ClassifiedIdle
    /\ merged = MergedIdle
    /\ resolved = ResolvedIdle
    /\ broken_shifts_games = <<>>
    /\ broken_pbp_games = <<>>
    /\ players_missing_ids = <<>>
    /\ missing_coords = <<>>
    /\ call = CallIdle
    /\ ncalls = 0
    /\ workers = [w \in Workers |-> WorkerIdle]

NextWorkers ==
    \E w \in Workers :
        \/ WorkerScrapeGame(w)
        \/ WorkerExtend(w)
        \/ WorkerGoalieAwayTest(w)
        \/ WorkerGoalieAwayExtend(w)
        \/ WorkerGoalieHomeTest(w)
        \/ WorkerGoalieHomeExtend(w)

SpecWorkers == InitWorkers /\ [][NextWorkers]_vars

(***************************************************************************)
(* Claims                                                                  *)
(***************************************************************************)
\* the columns a merged row takes from the textual report
HtmlPart(row) ==
    [Period |-> row.Period, Event |-> row.Event, Description |-> row.Description,
     Seconds_Elapsed |-> row.Seconds_Elapsed, p1_ID |-> row.p1_ID,
     Away_Team |-> row.Away_Team, Home_Team |-> row.Home_Team]

\* a merge has returned a table
MergeReturned == merged.done /\ IsDataFrame(merged.game_df)

\* the merge went through a join (every path but the auxiliary-absent one)
Joining == merged.fn = "combine_html_json_pbp" \/ ~IsNone(merged.other)

\* C1 (as claimed): whenever a merge returns a table, on any path and for every
\* pair of input tables, the output has exactly as many rows as the
\* textual-report table and every textual-report row appears in it exactly once.
C1_AnchorRowsSurviveOnce ==
    MergeReturned =>
        LET out == merged.game_df.rows
            html == merged.html_df.rows
        IN  /\ Len(out) = Len(html)
            /\ \A r \in Range(html) :
                  Cardinality({i \in DOMAIN html : html[i] = r})
                    = Cardinality({k \in DOMAIN out : HtmlPart(out[k]) = r})

\* C2 (as claimed): every table a merge returns, on every path including the
\* auxiliary-absent one, has at most one row per (Period, Event, Description,
\* Seconds_Elapsed) tuple.
C2_OneRowPerTupleEveryPath ==
    MergeReturned =>
        LET out == merged.game_df.rows
        IN  \A k, l \in DOMAIN out : DedupKey(out[k]) = DedupKey(out[l]) => k = l

\* the index of the first textual-report row with the tuple of row
FirstWithTuple(html, row) ==
    CHOOSE i \in DOMAIN html :
        /\ DedupKey(html[i]) = DedupKey(row)
        /\ \A j \in 1..(i - 1) : DedupKey(html[j]) # DedupKey(row)

\* the coordinates the first joined row of textual-report row i carries
FirstCoords(i) ==
    LET html == merged.html_df.rows
        right == merged.other.rows
        positional == merged.fn = "combine_html_json_pbp" /\ Len(html) = Len(right)
        hits == IF merged.fn = "combine_html_json_pbp"
                THEN {j \in DOMAIN right : MatchJson(html[i], right[j])}
                ELSE {j \in DOMAIN right :
                        MatchEspn(html[i], [right[j] EXCEPT !.period = IntOf[right[j].period]])}
        first == IF positional THEN i ELSE CHOOSE j \in hits : \A m \in hits : j <= m
        has(c) == merged.fn = "combine_espn_html_pbp" \/ c \in merged.other.columns
    IN  IF ~positional /\ hits = {} THEN <<NaN, NaN>>
        ELSE <<IF has("xC") THEN right[first].xC ELSE NaN,
               IF has("yC") THEN right[first].yC ELSE NaN>>

\* C2 (amended): a table returned on a path that joins (positional, composite
\* key, auxiliary table present, empty included) has exactly one row per
\* distinct tuple of the textual report, in the order of their first
\* occurrence, and that row is the first joined row with the tuple: the first
\* textual-report row with it and its first match.  On the auxiliary-absent
\* path nothing is dropped: the rows are the textual-report rows, repeated
\* tuples included.
C2_OneRowPerTupleWhereJoined ==
    MergeReturned =>
        LET out == merged.game_df.rows
            html == merged.html_df.rows
        IN  IF Joining
            THEN /\ \A k, l \in DOMAIN out : DedupKey(out[k]) = DedupKey(out[l]) => k = l
                 /\ \A i \in DOMAIN html : \E k \in DOMAIN out : DedupKey(out[k]) = DedupKey(html[i])
                 /\ \A k \in DOMAIN out :
                       /\ HtmlPart(out[k]) = html[FirstWithTuple(html, out[k])]
                       /\ <<out[k].xC, out[k].yC>> = FirstCoords(FirstWithTuple(html, out[k]))
                 /\ \A k, l \in DOMAIN out :
                       k < l => FirstWithTuple(html, out[k]) < FirstWithTuple(html, out[l])
            ELSE /\ Len(out) = Len(html)
                 /\ \A i \in DOMAIN html : HtmlPart(out[i]) = html[i]

\* C2 witness: a composite-key join in which one textual-report row matched two
\* structured rows, and a table came back with a single row for it
C2_Witness ==
    /\ MergeReturned
    /\ merged.fn = "combine_html_json_pbp"
    /\ Len(merged.html_df.rows) # Len(merged.other.rows)
    /\ \E i \in DOMAIN merged.html_df.rows :
          Cardinality({j \in DOMAIN merged.other.rows :
                         MatchJson(merged.html_df.rows[i], merged.other.rows[j])}) = 2
    /\ Len(merged.game_df.rows) = 1

\* C10: parse_event classifies the uppercased description by the first keyword,
\* in the declared order GOAL SCORED, SHOT ON GOAL, SHOT MISSED, SHOT BLOCKED,
\* PENALTY, FACEOFF, HIT, TAKEAWAY, GIVEAWAY, that occurs in it as a substring,
\* and gives none when no keyword occurs; of two keywords that both occur, the
\* earlier-declared one decides.
C10_FirstDeclaredKeywordWins ==
    LET declared == << <<kwGoalScored, "GOAL">>, <<kwShotOnGoal, "SHOT">>,
                       <<kwShotMissed, "MISS">>, <<kwShotBlocked, "BLOCK">>,
                       <<kwPenalty, "PENL">>, <<kwFaceoff, "FAC">>, <<kwHit, "HIT">>,
                       <<kwTakeaway, "TAKE">>, <<kwGiveaway, "GIVE">> >>
        d == Upper(classified.fields[9])
        occur == {i \in DOMAIN declared : IsSubstring(declared[i][1], d)}
    IN  (classified.done /\ ~IsNone(classified.play)) =>
            IF occur = {} THEN classified.play.event = "None"
            ELSE \E i \in occur : /\ \A j \in occur : i <= j
                                   /\ classified.play.event = declared[i][2]

\* C10 witness: a lower-case description in which HIT (inside "White") and
\* SHOT ON GOAL both occur, classified as SHOT
C10_Witness ==
    /\ classified.done
    /\ classified.fields[9] = <<"S","h","o","t"," ","o","n"," ","g","o","a","l">>
                                \o <<" ","b","y"," ","W","h","i","t","e">>
    /\ ~IsNone(classified.play)
    /\ classified.play.event = "SHOT"

\* the roster entries of a venue, and of both venues in the order they are visited
Entries(venue) == resolved.roster_players[venue]

AllEntries == Entries("Home") \o Entries("Away")

\* the lookup of the entry's normalized name in the directory misses
Miss(player) == fix_name(player.name) \notin DOMAIN resolved.json_players

\* an id that names a player
IsResolvedId(id) == id # NA /\ id # " "

\* C4 (as claimed): of the roster entries whose lookup misses, only those flagged
\* scratch that are not goalies are omitted without a diagnostic; every other
\* one, goalies included, has its (name, game_id) in players_missing_ids and a
\* placeholder with the unresolved id in its team's mapping.
C4_EveryoneButSkaterScratchesRecorded ==
    resolved.done =>
        \A venue \in {"Home", "Away"} : \A k \in DOMAIN Entries(venue) :
            LET player == Entries(venue)[k]
                name == fix_name(player.name)
            IN  (Miss(player) /\ ~(player.scratch /\ player.pos # "G")) =>
                    /\ <<player.name, resolved.game_id>> \in Range(players_missing_ids)
                    /\ name \in DOMAIN resolved[venue]
                    /\ resolved[venue][name].id = NA

\* the entries whose miss the code records
Recorded(player) == Miss(player) /\ ~player.scratch /\ player.pos # "G"

\* C4 (amended): of the roster entries whose lookup misses, those flagged
\* scratch and those that are goalies (scratch or not) are omitted from the team
\* mapping and leave no diagnostic; the others, the non-scratch non-goalies,
\* each add (name, game_id) to players_missing_ids, in roster order with the
\* home team first, and put a placeholder with the unresolved id, the entry's
\* number and an empty last name in their team's mapping.
C4_OnlyPlayingSkatersRecorded ==
    resolved.done =>
        /\ players_missing_ids =
              [k \in DOMAIN SelectSeq(AllEntries, Recorded) |->
                  <<SelectSeq(AllEntries, Recorded)[k].name, resolved.game_id>>]
        /\ \A venue \in {"Home", "Away"} : \A k \in DOMAIN Entries(venue) :
              LET player == Entries(venue)[k]
                  name == fix_name(player.name)
                  later == {m \in (k + 1)..Len(Entries(venue)) :
                              /\ fix_name(Entries(venue)[m].name) = name
                              /\ Recorded(Entries(venue)[m])}
                  any == {m \in DOMAIN Entries(venue) :
                              /\ fix_name(Entries(venue)[m].name) = name
                              /\ Recorded(Entries(venue)[m])}
              IN  Miss(player) =>
                    IF Recorded(player)
                    THEN /\ name \in DOMAIN resolved[venue]
                         /\ later = {} =>
                               resolved[venue][name] =
                                   [id |-> NA, number |-> player.number, last_name |-> ""]
                    ELSE any = {} => name \notin DOMAIN resolved[venue]

\* C4 witness: a run over a roster with an unresolved goalie who is not a
\* scratch and an unresolved skater who is not one either: the goalie is left
\* out, the skater recorded
C4_Witness ==
    /\ resolved.done
    /\ resolved.roster_players.Home = <<r7, r5>>
    /\ "CAREY PRICE" \notin DOMAIN resolved.Home
    /\ "BRENDAN GALLAGHER" \in DOMAIN resolved.Home
    /\ players_missing_ids = << <<"BRENDAN GALLAGHER", resolved.game_id>> >>

\* C5 (as claimed): within one game, once a normalized name is mapped to a
\* resolved id, no later directory entry (get_players_json) and no later roster
\* entry (combine_players_lists) with that name replaces the id by 'NA'.
C5_ResolvedIdNeverOverwritten ==
    resolved.done =>
        /\ \A k \in DOMAIN resolved.players_json :
              LET before == get_players_json(SubSeq(resolved.players_json, 1, k - 1))
                  after == get_players_json(SubSeq(resolved.players_json, 1, k))
              IN  \A name \in DOMAIN before :
                      IsResolvedId(before[name].id) => after[name].id # NA
        /\ \A venue \in {"Home", "Away"} : \A k \in DOMAIN Entries(venue) :
              LET before == venue_players(SubSeq(Entries(venue), 1, k - 1),
                                          resolved.json_players, resolved.game_id, <<>>).players
                  after == venue_players(SubSeq(Entries(venue), 1, k),
                                         resolved.json_players, resolved.game_id, <<>>).players
              IN  \A name \in DOMAIN before :
                      IsResolvedId(before[name].id) => after[name].id # NA

\* a scrape_game call has returned or raised
CallOver == call.fn = "scrape_game" /\ call.pc = "done"

\* scrape_pbp has run in the call
PbpRan == call.fn = "scrape_game" /\ "scrape_pbp" \in call.trace /\ call.pc # "scrape_pbp"

ThisGame == <<call.game_id, call.date>>

\* the call appended exactly the records new to the list, at its end
Appended(list, before, new) ==
    /\ Len(list) = before + Len(new)
    /\ SubSeq(list, before + 1, Len(list)) = new

\* C3 (as claimed): after any sequence of scrape_game and check_goalie calls,
\* none of the four lists holds the same composite key twice.
C3_NoKeyTwice ==
    \A list \in {broken_pbp_games, broken_shifts_games, players_missing_ids, missing_coords} :
        \A i, j \in DOMAIN list : list[i] = list[j] => i = j

\* a prerequisite of the call is missing: no roster, no json, or a json
\* get_teams fails on (then neither teams nor players are resolved)
PrerequisiteMissing ==
    \/ IsNone(call.roster)
    \/ IsNone(call.game_json)
    \/ IsNone(call.game_json.teams)

\* C6: a scrape_game call that misses a prerequisite appends (game_id, date) to
\* broken_pbp_games, appends it to broken_shifts_games exactly when shifts were
\* asked for, returns (None, None), and calls neither scrape_pbp nor
\* scrape_shifts.
C6_HardFailStops ==
    (call.fn = "scrape_game" /\ PrerequisiteMissing) =>
        /\ call.pc = "done" /\ call.outcome = "returned"
        /\ IsNone(call.pbp_df) /\ IsNone(call.shifts_df)
        /\ Appended(broken_pbp_games, call.before.broken_pbp, <<ThisGame>>)
        /\ Appended(broken_shifts_games, call.before.broken_shifts,
                    IF call.if_scrape_shifts THEN <<ThisGame>> ELSE <<>>)
        /\ call.trace \cap {"scrape_pbp", "scrape_shifts", "html_pbp", "espn_pbp",
                             "combine_html_json_pbp", "combine_espn_html_pbp"} = {}
        /\ Len(missing_coords) = call.before.coords

\* C6 witness: a call without a roster, shifts asked for, both records made
C6_Witness ==
    /\ CallOver
    /\ IsNone(call.roster) /\ ~IsNone(call.game_json)
    /\ call.if_scrape_shifts
    /\ call.before.broken_shifts = 1
    /\ broken_shifts_games[2] = ThisGame
    /\ broken_pbp_games[Len(broken_pbp_games)] = ThisGame

\* parse_json failed on the play list of the structured feed
JsonParseFailed == PbpRan /\ "parse_json" \in call.trace /\ IsNone(call.game_json.json_df)

\* the auxiliary feed was obtained and did not parse: not xml, or an event
\* parse_event raises on
EspnParseFailed ==
    /\ PbpRan /\ "espn_pbp" \in call.trace /\ ~IsNone(call.espn)
    /\ ~call.espn.wellformed \/ IsRaised(parse_espn(call.espn))

\* C7 (as claimed): a parse failure of a non-anchor source, the structured
\* feed's play list or the auxiliary feed, sends scrape_pbp down the degraded
\* branch, and a pbp table is returned whenever the textual report is there.
C7_ParseFailureDegrades ==
    (JsonParseFailed \/ EspnParseFailed) =>
        /\ "html_pbp" \in call.trace
        /\ IsDataFrame(call.html_df) =>
              "combine_espn_html_pbp" \in call.trace /\ IsDataFrame(call.pbp_df)

\* C7 (amended): a parse failure of the auxiliary feed is treated as the feed
\* being absent: the textual report was there and a pbp table is returned.  A
\* parse failure of the structured feed's play list (parse_json returning None,
\* game ids from the season threshold on) makes scrape_pbp return None at once,
\* before the textual report or the auxiliary feed is asked for, and the game
\* is recorded in broken_pbp_games when the call returns.
C7_OnlyAuxiliaryFailureDegrades ==
    /\ EspnParseFailed =>
          /\ IsDataFrame(call.html_df)
          /\ IsDataFrame(call.pbp_df)
          /\ "combine_espn_html_pbp" \in call.trace
    /\ JsonParseFailed =>
          /\ IsNone(call.pbp_df)
          /\ call.trace \cap {"html_pbp", "espn_pbp", "combine_html_json_pbp",
                               "combine_espn_html_pbp", "scrape_shifts"} = {}
          /\ call.pc = "done" /\ call.outcome = "returned"
          /\ Appended(broken_pbp_games, call.before.broken_pbp, <<ThisGame>>)

\* C7 witness: the play list of a 2016 game did not parse and the call returned
\* without a table; nobody asked for the textual report
C7_Witness ==
    /\ JsonParseFailed
    /\ CallOver /\ call.outcome = "returned"
    /\ IsNone(call.pbp_df)
    /\ call.html_df = NotCalled

\* the auxiliary table scrape_pbp got in the call
EspnDf == espn_scrape_game(call.espn)

\* C8 (as claimed): on the branch without structured data, when the auxiliary
\* table is absent or empty, scrape_pbp returns the textual-report table, every
\* row of it, without coordinates, and has appended (game_id, date) to
\* missing_coords; a feed that is not xml gives the empty table.
C8_TextualTableWithoutCoordinates ==
    (PbpRan /\ "combine_espn_html_pbp" \in call.trace) =>
        /\ (~IsNone(call.espn) /\ ~call.espn.wellformed) => EspnDf = DataFrame(<<>>)
        /\ (IsNone(EspnDf) \/ EspnDf = DataFrame(<<>>)) =>
              /\ IsDataFrame(call.pbp_df)
              /\ Len(call.pbp_df.rows) = Len(call.html_df.rows)
              /\ \A i \in DOMAIN call.pbp_df.rows :
                    /\ HtmlPart(call.pbp_df.rows[i]) = call.html_df.rows[i]
                    /\ call.pbp_df.rows[i].xC = NaN /\ call.pbp_df.rows[i].yC = NaN
              /\ Appended(missing_coords, call.before.coords, <<ThisGame>>)

\* a merge ran in the call and an exception was raised in it
MergeRaised ==
    /\ PbpRan
    /\ \/ /\ "combine_html_json_pbp" \in call.trace
          /\ \/ ~(DroppedColumns \subseteq call.game_json.json_df.columns)
             \/ IsRaised(html_json_merge(call.game_json.json_df, call.html_df))
       \/ /\ "combine_espn_html_pbp" \in call.trace
          /\ ~IsNone(EspnDf)
          /\ IsRaised(espn_html_merge(call.html_df, EspnDf))

\* C9 (as claimed): an exception raised anywhere in either merge is caught:
\* scrape_game returns normally, with no pbp table and the game appended to
\* broken_pbp_games, and further games can be scraped.
C9_MergeExceptionsCaught ==
    MergeRaised =>
        /\ call.pc = "done" /\ call.outcome = "returned"
        /\ IsNone(call.pbp_df)
        /\ Appended(broken_pbp_games, call.before.broken_pbp, <<ThisGame>>)

\* one of the four lists, by its name
Accumulator(name) ==
    CASE name = "broken_pbp_games" -> broken_pbp_games
      [] name = "broken_shifts_games" -> broken_shifts_games
      [] name = "players_missing_ids" -> players_missing_ids
      [] name = "missing_coords" -> missing_coords

AccumulatorNames ==
    {"broken_pbp_games", "broken_shifts_games", "players_missing_ids", "missing_coords"}

\* the appends to the list `name` the threads have made so far: <<thread, i>>
\* for the i-th append of the thread
AppendsTo(name) ==
    UNION {{<<w, i>> : i \in {j \in DOMAIN workers[w].appended :
                                  workers[w].appended[j].list = name}} : w \in Workers}

\* every list holds as many records as were appended to it, each of them
NoAppendLost ==
    \A name \in AccumulatorNames :
        /\ Len(Accumulator(name)) = Cardinality(AppendsTo(name))
        /\ \A a \in AppendsTo(name) :
              workers[a[1]].appended[a[2]].key \in Range(Accumulator(name))

\* C11 (as claimed): under every interleaving of the threads' steps no record
\* appended to one of the four lists is lost, and no list holds the same key
\* twice, the test-then-extend of check_goalie included.
C11_ThreadSafeAppends ==
    /\ NoAppendLost
    /\ \A name \in AccumulatorNames :
          Cardinality(Range(Accumulator(name))) = Len(Accumulator(name))

\* a scrape_game call with shifts asked for has returned
ShiftsCallReturned == CallOver /\ call.outcome = "returned" /\ call.if_scrape_shifts

\* C12 (as claimed): a scrape_game call with shifts asked for that returns no
\* shift table leaves (game_id, date) in broken_shifts_games, whatever the
\* cause; and a shift table is never returned without a pbp table.
C12_NoShiftTableAlwaysRecorded ==
    ShiftsCallReturned =>
        /\ IsNone(call.shifts_df) => ThisGame \in Range(broken_shifts_games)
        /\ ~IsNone(call.shifts_df) => IsDataFrame(call.pbp_df)

\* both shift scrapers gave nothing (the json one is not asked before the
\* season threshold)
BothShiftSourcesFailed ==
    /\ "scrape_shifts" \in call.trace
    /\ IsNone(call.html_shifts)
    /\ call.json_shifts = NotCalled \/ IsNone(call.json_shifts)

\* C12 (amended): a scrape_game call with shifts asked for that returns no
\* shift table has appended (game_id, date) to broken_shifts_games when a
\* prerequisite was missing or when both shift sources failed.  When the pbp
\* stage failed (scrape_pbp returned None) scrape_shifts is not called and the
\* call appends nothing to broken_shifts_games, only to broken_pbp_games.  A
\* shift table is never returned without a pbp table, and a call that returns
\* one appends to neither list.
C12_NoShiftTableRecordedUnlessPbpFailed ==
    ShiftsCallReturned =>
        IF ~IsNone(call.shifts_df)
        THEN /\ IsDataFrame(call.pbp_df)
             /\ Appended(broken_shifts_games, call.before.broken_shifts, <<>>)
             /\ Appended(broken_pbp_games, call.before.broken_pbp, <<>>)
        ELSE IF PrerequisiteMissing
        THEN Appended(broken_shifts_games, call.before.broken_shifts, <<ThisGame>>)
        ELSE IF IsNone(call.pbp_df)
        THEN /\ "scrape_shifts" \notin call.trace
             /\ Appended(broken_shifts_games, call.before.broken_shifts, <<>>)
             /\ Appended(broken_pbp_games, call.before.broken_pbp, <<ThisGame>>)
        ELSE /\ BothShiftSourcesFailed
             /\ Appended(broken_shifts_games, call.before.broken_shifts, <<ThisGame>>)
             /\ Appended(broken_pbp_games, call.before.broken_pbp, <<>>)

\* C12 witness: shifts were asked for, the prerequisites were there, the
\* textual report was not: the call returned neither table and
\* broken_shifts_games does not hold the game
C12_Witness ==
    /\ ShiftsCallReturned
    /\ ~PrerequisiteMissing
    /\ IsNone(call.html_df) /\ IsNone(call.pbp_df) /\ IsNone(call.shifts_df)
    /\ ThisGame \notin Range(broken_shifts_games)
    /\ broken_pbp_games[Len(broken_pbp_games)] = ThisGame

====
